---- MODULE Spec2Model ----
(***************************************************************************)
(* Checkout-to-fulfilment pipeline of the Shop with Seye backend:          *)
(* checkout initiation, the three payment-confirmation triggers (webhook,  *)
(* redirect callback, status poll), finalizeSuccessfulPayment with its     *)
(* MongoDB transaction, and the admin order-status update.                 *)
(*                                                                         *)
(* One tenant and one product are modelled; the product owns the ordered   *)
(* array of variants (Variants).  Every await of a handler that             *)
(* touches the store is a separate step, so that requests interleave as    *)
(* they do on the Node event loop.                                         *)
(***************************************************************************)
EXTENDS Integers, Sequences, FiniteSets, TLC

\* ------------------------------------------------------------------ bounds
MaxStock == 2
MaxQty == 2
MaxOrders == 2
MaxCalls == 2
MaxTimeline == 3
MaxInits == 2
MaxClock == 2
MaxEvents == 2
MaxLedger == 2

\* ------------------------------------------------------- program constants
ShippingFeeNgn == 2500

Users == {"ada"}
\* positions of the seeded product's variants array (sizes M and L)
Variants == {1, 2}
CallIds == 1..MaxCalls

OrderStatuses == {"pending", "processing", "paid", "shipped", "delivered", "cancelled"}

PriceNgn(v) == 15000 * v

NoDoc == [missing |-> TRUE]

\* ------------------------------------------------------------ cart totals
RECURSIVE SumLines(_)
SumLines(lines) ==
  IF lines = <<>> THEN 0
  ELSE SumLines(SubSeq(lines, 1, Len(lines) - 1))
         + lines[Len(lines)].quantity * lines[Len(lines)].unitPriceNgn

ShippingFor_NonNegative(subtotalNgn) == IF subtotalNgn >= 0 THEN ShippingFeeNgn ELSE 0

ShippingFor(subtotalNgn) == IF subtotalNgn > 0 THEN ShippingFeeNgn ELSE 0

calculateCartTotals(lines) ==
  LET subtotalNgn == SumLines(lines)
      shippingNgn == ShippingFor(subtotalNgn)
  IN [subtotalNgn |-> subtotalNgn,
      shippingNgn |-> shippingNgn,
      totalNgn    |-> subtotalNgn + shippingNgn]

\* ---------------------------------------------------------------- carts
CartLine(v, q) == [variantId |-> v, quantity |-> q, unitPriceNgn |-> PriceNgn(v)]

RECURSIVE LineSeqs(_)
LineSeqs(n) ==
  IF n = 0 THEN {<<>>}
  ELSE LET shorter == LineSeqs(n - 1)
       IN shorter \cup
          {Append(s, CartLine(v, q)) :
             s \in {t \in shorter : Len(t) = n - 1}, v \in Variants, q \in 1..MaxQty}

DistinctVariants(lines) ==
  \A i, j \in 1..Len(lines) : lines[i].variantId = lines[j].variantId => i = j

CartChoices == {s \in LineSeqs(Cardinality(Variants)) : DistinctVariants(s)}


\* ------------------------------------------------------------------ state
VARIABLES
  stock,          \* Product.variants[v].stock, indexed by array position
  stock0,         \* the stock the product was seeded with (never changes)
  cart,           \* Cart.lines of each customer
  orders,         \* Order documents; the order id is its index
  payments,       \* Payment documents; a request's reference r stands for
                  \* the providerRef of the r-th payment created
  notifications,  \* jobs added to the sws-notifications queue
  calls,          \* in-flight and answered payment requests
  lastRes,        \* response of the last admin request
  tLines,         \* input of calculateCartTotals (totals specification)
  tTotals,        \* output of calculateCartTotals (totals specification)
  trackingEvents, \* TrackingEvent documents
  ledger,         \* InventoryLedger documents
  clock,          \* Date.now(), in milliseconds
  inits,          \* in-flight and answered checkout requests
  smtp,           \* the worker's SMTP_* environment
  jobs,           \* jobs of the sws-notifications queue
  outbox,         \* mails handed to the transport
  workerLog       \* what the worker wrote to the console

\* state of the notification worker
workerVars == <<smtp, jobs, outbox, workerLog>>

\* state of the checkout requests, the admin back-office and the worker
backOffice == <<trackingEvents, ledger, clock, inits, workerVars>>

vars == <<stock, stock0, cart, orders, payments, notifications, calls, lastRes,
          tLines, tTotals, trackingEvents, ledger, clock, inits, workerVars>>

pipelineVars == <<stock, stock0, cart, orders, payments, notifications, calls, lastRes,
                  trackingEvents, ledger, clock, inits, workerVars>>

NoRes == [op |-> "none", code |-> 0, order |-> 0, from |-> "none", to |-> "none",
          tracking |-> "none", entries |-> 0, notify |-> "none"]

IdleCall ==
  [pc      |-> "idle",
   trigger |-> "none",
   ref     |-> 0,
   seen    |-> NoDoc,    \* the Payment document as read at payments.ts:18
   ordSeen |-> "none",   \* Order.status as read at payments.ts:23
   polled  |-> "none",   \* the status the poll handler read at payments.ts:175
   verified |-> "none",  \* what verifyPaystackTransaction answered this request
   view    |-> <<>>,     \* the transaction's snapshot of the variants' stock
   staged  |-> {},       \* documents written by the open transaction
   dirty   |-> {},       \* documents committed by others since the snapshot
   line    |-> 0,        \* index of the order line the loop is at
   code    |-> 0,        \* HTTP status of the response
   idem    |-> "na",     \* the idempotent flag finalize returned
   out     |-> "none",   \* redirect target, or the status the poll shows
   err     |-> "none",   \* what finalize threw
   secret  |-> "none",   \* env.PAYSTACK_WEBHOOK_SECRET of the answering process
   raw     |-> <<>>,     \* raw body of a webhook request
   sig     |-> <<"absent", "none", <<>>>>]  \* x-paystack-signature header of a webhook request

\* document names, for the transaction's write set
PayDoc(r) == <<"payment", r>>
OrdDoc(o) == <<"order", o>>
CartDoc(u) == <<"cart", u>>
ProductDoc == <<"product", 0>>

Refs == 1..MaxOrders
PaymentExists(r) == r \in 1..Len(payments)

TxPcs == {"saveOrder", "decrement", "clearCart", "commit"}
TxActive(d) == calls[d].pc \in TxPcs

LockedByOther(c, doc) == \E d \in CallIds \ {c} : doc \in calls[d].staged

WriteConflict(c, doc) == doc \in calls[c].dirty \/ LockedByOther(c, doc)

MarkDirty(cs, c, docs) ==
  [d \in CallIds |->
     IF d # c /\ TxActive(d) THEN [cs[d] EXCEPT !.dirty = @ \cup docs] ELSE cs[d]]

MergeMeta(old, new) ==
  [k \in DOMAIN old \cup DOMAIN new |-> IF k \in DOMAIN new THEN new[k] ELSE old[k]]

FinalizeMeta(trigger) ==
  [source |-> trigger, gatewayResponse |-> "Approved"]

\* ---------------------------------------------- references and documents
\* the random part of a payment reference (Math.random().toString(36))
Suffixes == {"A1B2C3", "Z9Y8X7"}

orderRefOf(now) == <<"SWS", now>>
paymentRefOf(now, suffix) == <<"PAY", now, suffix>>

\* the unique indexes on (tenantId, orderRef) and (tenantId, providerRef)
OrderRefTaken(ref) == \E o \in 1..Len(orders) : orders[o].orderRef = ref
PaymentRefTaken(ref) == \E r \in 1..Len(payments) : payments[r].providerRef = ref

NewOrder(u, lines, totals, orderRef) ==
  [userId         |-> u,
   orderRef       |-> orderRef,
   status         |-> "pending",
   totalNgn       |-> totals.totalNgn,
   trackingNumber |-> "none",
   lines          |-> lines,
   timeline       |-> <<[status |-> "pending", actor |-> "system",
                         trackingNumber |-> "none"]>>]

NewPayment(orderId, totals, paymentRef) ==
  [orderId     |-> orderId,
   providerRef |-> paymentRef,
   status      |-> "initialized",
   amountNgn   |-> totals.totalNgn,
   verifiedAt  |-> 0,
   metadata    |-> [accessCode |-> "access_code"]]

InitIds == 1..MaxInits

\* no SMTP_* variable is set
NoSmtp == [host |-> "unset", port |-> "unset", user |-> "unset", pass |-> "unset"]

IdleInit ==
  [pc            |-> "idle",
   userId        |-> "none",
   lines         |-> <<>>,       \* cart.lines as read at auth.ts:119
   totals        |-> calculateCartTotals(<<>>),
   orderRef      |-> <<"SWS", 0>>,
   paymentRef    |-> <<"PAY", 0, "none">>,
   orderStaged   |-> FALSE,      \* Order created in the open transaction
   paymentStaged |-> FALSE,      \* Payment created in the open transaction
   code          |-> 0]          \* HTTP status of the response

\* ------------------------------------------------------------------ Init
Init ==
  /\ stock \in [Variants -> 0..MaxStock]
  /\ stock0 = stock
  /\ cart \in [Users -> CartChoices \ {<<>>}]
  /\ orders = <<>>
  /\ payments = <<>>
  /\ notifications = <<>>
  /\ calls = [c \in CallIds |-> IdleCall]
  /\ lastRes = NoRes
  /\ tLines = <<>>
  /\ tTotals = calculateCartTotals(<<>>)
  /\ trackingEvents = <<>>
  /\ ledger = <<>>
  /\ clock = 1
  /\ inits = [i \in InitIds |-> IdleInit]
  /\ smtp = NoSmtp
  /\ jobs = <<>>
  /\ outbox = <<>>
  /\ workerLog = <<>>

\* ------------------------------------------------- checkout initiation
\* The 409 (empty cart), failed-gateway and duplicate-reference outcomes
\* write nothing: they are the guard of the action.  The handler runs
\* without another request in between; the clock has moved on when the
\* gateway has answered.
InitializeCheckout(u, suffix) ==
  /\ Len(orders) < MaxOrders
  /\ cart[u] # <<>>
  /\ ~OrderRefTaken(orderRefOf(clock))
  /\ ~PaymentRefTaken(paymentRefOf(clock, suffix))
  /\ LET totals == calculateCartTotals(cart[u])
     IN /\ orders' = Append(orders, NewOrder(u, cart[u], totals, orderRefOf(clock)))
        /\ payments' = Append(payments,
                           NewPayment(Len(orders) + 1, totals, paymentRefOf(clock, suffix)))
  /\ clock' = clock + 1
  /\ UNCHANGED <<stock, stock0, cart, notifications, calls, lastRes, tLines, tTotals,
                 trackingEvents, ledger, inits, workerVars>>

\* ------------------------------- checkout initiation, await by await
FreeInit(i) == inits[i].pc = "idle" /\ \A j \in InitIds : j < i => inits[j].pc # "idle"

InitInFlight(i) == inits[i].pc \in {"gateway", "createOrder", "createPayment", "commit"}

checkoutVars == <<stock, stock0, cart, notifications, calls, lastRes, tLines, tTotals,
                  trackingEvents, ledger, workerVars>>

\* the request failed: the transaction, if open, is aborted
FailInit(i, code) ==
  inits' = [inits EXCEPT ![i].pc = "done", ![i].code = code,
                         ![i].orderStaged = FALSE, ![i].paymentStaged = FALSE]

\* auth.ts:116-127: the cart is read, totals and references are computed
BeginCheckout(i, u, suffix) ==
  /\ FreeInit(i)
  /\ Len(orders) + Cardinality({j \in InitIds : InitInFlight(j)}) < MaxOrders
  /\ inits' = [inits EXCEPT ![i] =
       IF cart[u] = <<>>
       THEN [IdleInit EXCEPT !.pc = "done", !.userId = u, !.code = 409]
       ELSE [IdleInit EXCEPT !.pc = "gateway", !.userId = u, !.lines = cart[u],
                             !.totals = calculateCartTotals(cart[u]),
                             !.orderRef = orderRefOf(clock),
                             !.paymentRef = paymentRefOf(clock, suffix)]]
  /\ UNCHANGED <<checkoutVars, orders, payments, clock>>

InitGatewayOutcomes == {"ok", "throws"}

\* auth.ts:156-165: a throw leaves the handler before the transaction
GatewayInitialize(i, outcome) ==
  /\ inits[i].pc = "gateway"
  /\ IF outcome = "ok"
     THEN inits' = [inits EXCEPT ![i].pc = "createOrder"]
     ELSE FailInit(i, 500)
  /\ UNCHANGED <<checkoutVars, orders, payments, clock>>

\* an insert meets the unique index: a committed document with the key is
\* a duplicate-key error, an uncommitted one of another transaction a
\* write conflict
OrderRefClash(i) ==
  \/ OrderRefTaken(inits[i].orderRef)
  \/ \E j \in InitIds \ {i} : inits[j].orderStaged /\ inits[j].orderRef = inits[i].orderRef

PaymentRefClash(i) ==
  \/ PaymentRefTaken(inits[i].paymentRef)
  \/ \E j \in InitIds \ {i} :
       inits[j].paymentStaged /\ inits[j].paymentRef = inits[i].paymentRef

\* what the store answers to an insert
DbOutcomes == {"ok", "error"}

\* auth.ts:167-204
CreateOrder(i, db) ==
  /\ inits[i].pc = "createOrder"
  /\ IF OrderRefClash(i) \/ db = "error"
     THEN FailInit(i, 500)
     ELSE inits' = [inits EXCEPT ![i].pc = "createPayment", ![i].orderStaged = TRUE]
  /\ UNCHANGED <<checkoutVars, orders, payments, clock>>

\* a payment creation whose failure leaves the order in place
CreatePayment_KeepsOrder(i, db) ==
  /\ inits[i].pc = "createPayment"
  /\ IF PaymentRefClash(i) \/ db = "error"
     THEN /\ FailInit(i, 500)
          /\ orders' = Append(orders, NewOrder(inits[i].userId, inits[i].lines,
                                               inits[i].totals, inits[i].orderRef))
     ELSE /\ inits' = [inits EXCEPT ![i].pc = "commit", ![i].paymentStaged = TRUE]
          /\ UNCHANGED orders
  /\ UNCHANGED <<checkoutVars, payments, clock>>

\* auth.ts:206-223, and the catch at 232-234
CreatePayment(i, db) ==
  /\ inits[i].pc = "createPayment"
  /\ IF PaymentRefClash(i) \/ db = "error"
     THEN FailInit(i, 500)
     ELSE inits' = [inits EXCEPT ![i].pc = "commit", ![i].paymentStaged = TRUE]
  /\ UNCHANGED <<checkoutVars, orders, payments, clock>>

\* a checkout that empties the cart as soon as the order exists
CommitCheckout_ClearsCart(i) ==
  /\ inits[i].pc = "commit"
  /\ orders' = Append(orders, NewOrder(inits[i].userId, inits[i].lines,
                                       inits[i].totals, inits[i].orderRef))
  /\ payments' = Append(payments, NewPayment(Len(orders) + 1, inits[i].totals,
                                             inits[i].paymentRef))
  /\ inits' = [inits EXCEPT ![i].pc = "done", ![i].code = 201,
                            ![i].orderStaged = FALSE, ![i].paymentStaged = FALSE]
  /\ cart' = [cart EXCEPT ![inits[i].userId] = <<>>]
  /\ UNCHANGED <<stock, stock0, notifications, calls, lastRes, tLines, tTotals,
                 trackingEvents, ledger, clock, workerVars>>

\* auth.ts:225-231: both documents become visible together
CommitCheckout(i) ==
  /\ inits[i].pc = "commit"
  /\ orders' = Append(orders, NewOrder(inits[i].userId, inits[i].lines,
                                       inits[i].totals, inits[i].orderRef))
  /\ payments' = Append(payments, NewPayment(Len(orders) + 1, inits[i].totals,
                                             inits[i].paymentRef))
  /\ inits' = [inits EXCEPT ![i].pc = "done", ![i].code = 201,
                            ![i].orderStaged = FALSE, ![i].paymentStaged = FALSE]
  /\ UNCHANGED <<checkoutVars, clock>>

\* a millisecond passes
Tick ==
  /\ clock < MaxClock
  /\ clock' = clock + 1
  /\ UNCHANGED <<checkoutVars, orders, payments, inits>>

InitCheckout ==
  /\ Init
  /\ stock = [v \in Variants |-> MaxStock]
  /\ cart \in [Users -> {<<CartLine(1, 1)>>, <<CartLine(1, 1), CartLine(2, MaxQty)>>}]

NextCheckout ==
  \/ \E i \in InitIds, u \in Users, suffix \in Suffixes : BeginCheckout(i, u, suffix)
  \/ \E i \in InitIds, outcome \in InitGatewayOutcomes : GatewayInitialize(i, outcome)
  \/ \E i \in InitIds, db \in DbOutcomes : CreateOrder(i, db)
  \/ \E i \in InitIds, db \in DbOutcomes : CreatePayment(i, db)
  \/ \E i \in InitIds : CommitCheckout(i)
  \/ Tick

SpecCheckout == InitCheckout /\ [][NextCheckout]_vars

Created == {i \in InitIds : inits[i].pc = "done" /\ inits[i].code = 201}

\* C14: every Payment references an existing Order and every Order has
\* exactly one Payment; there are exactly as many Orders, and as many
\* Payments, as checkout requests that succeeded (a request that failed at
\* the gateway or at either creation left neither); every Order is pending
\* with one timeline entry and its Payment is initialized with the order's
\* total as amount.
C14_CheckoutAllOrNothing ==
  /\ \A r \in 1..Len(payments) : payments[r].orderId \in 1..Len(orders)
  /\ \A o \in 1..Len(orders) :
       /\ Cardinality({r \in 1..Len(payments) : payments[r].orderId = o}) = 1
       /\ orders[o].status = "pending"
       /\ Len(orders[o].timeline) = 1
       /\ \A r \in 1..Len(payments) :
            payments[r].orderId = o
            => /\ payments[r].status = "initialized"
               /\ payments[r].amountNgn = orders[o].totalNgn
               /\ payments[r].amountNgn = SumLines(orders[o].lines) + ShippingFeeNgn
  /\ Len(orders) = Cardinality(Created)
  /\ Len(payments) = Cardinality(Created)

C14_Witness ==
  /\ Len(orders) = 1
  /\ Len(payments) = 1
  /\ \E i, j \in InitIds :
       /\ inits[i].pc = "done" /\ inits[i].code = 201
       /\ inits[j].pc = "done" /\ inits[j].code = 500
       /\ inits[j].orderRef # inits[i].orderRef

\* C15 as stated: any two checkout requests, also two that read the same
\* clock value, have different order references and different payment
\* references, and no request fails on a reference that is taken.
C15_ReferencesUnique ==
  /\ \A i, j \in InitIds :
       (i # j /\ inits[i].lines # <<>> /\ inits[j].lines # <<>>)
       => /\ inits[i].orderRef # inits[j].orderRef
          /\ inits[i].paymentRef # inits[j].paymentRef
  /\ \A i \in InitIds :
       (inits[i].pc = "done" /\ inits[i].code = 500)
       => \A j \in InitIds \ {i} :
            inits[j].lines # <<>>
            => /\ inits[j].orderRef # inits[i].orderRef
               /\ inits[j].paymentRef # inits[i].paymentRef


\* ---------------------------------------------------- gateway adapter
NoSecret == "unset"
WebhookSecret == "whsec_live"
AttackerKey == "attacker_key"

Events == {"charge.success", "charge.failed"}
Payloads == [event : Events, reference : 0..MaxOrders]

\* JSON text of a payload and its parse (reference 0: no data.reference)
RawBody(payload) == <<"json", payload.event, payload.reference>>
ParseBody(raw) == [event |-> raw[2], reference |-> raw[3]]

\* crypto.createHmac("sha512", key).update(rawBody).digest("hex")
Hmac(key, raw) == <<"hmac-sha512", key, raw>>

NoSignature == <<"absent", "none", <<>>>>

verifyPaystackWebhookSignature_AbsentOk(secret, rawBody, signature) ==
  IF secret = NoSecret \/ signature = NoSignature
  THEN TRUE ELSE Hmac(secret, rawBody) = signature

verifyPaystackWebhookSignature(secret, rawBody, signature) ==
  IF secret = NoSecret THEN TRUE ELSE Hmac(secret, rawBody) = signature

\* what a sender can put into the signature header of a request
SentSignatures(raw) ==
  {NoSignature, Hmac(WebhookSecret, raw), Hmac(AttackerKey, raw)}
    \cup {Hmac(WebhookSecret, RawBody(p)) : p \in {q \in Payloads : RawBody(q) # raw}}

GatewayOutcomes == {"success", "failed", "throws"}

\* ------------------------------------------------ answering a request
NotFoundErrors == {"Payment reference not found", "Order not found for payment"}

FreeSlot(c) == calls[c].pc = "idle" /\ \A d \in CallIds : d < c => calls[d].pc # "idle"

Done(call, code, idem, out, err) ==
  [IdleCall EXCEPT !.pc = "done", !.trigger = call.trigger, !.ref = call.ref,
                   !.secret = call.secret, !.raw = call.raw, !.sig = call.sig,
                   !.polled = call.polled, !.verified = call.verified,
                   !.line = call.line,
                   !.code = code, !.idem = idem, !.out = out, !.err = err]

Answer_No404(call, idem, err) ==
  IF call.trigger = "webhook"
  THEN Done(call, IF err = "none" THEN 200 ELSE 500,
            IF err = "none" THEN idem ELSE "na", "none", err)
  ELSE IF call.trigger = "callback"
  THEN Done(call, 302, IF err = "none" THEN idem ELSE "na",
            IF err = "none" THEN "success" ELSE "failure", err)
  ELSE Done(call, 200, IF err = "none" THEN idem ELSE "na",
            IF err = "none" THEN "success" ELSE call.polled, err)

\* the three adapters' handling of finalize's result (err = "none") or throw
Answer(call, idem, err) ==
  IF call.trigger = "webhook"
  THEN Done(call, IF err = "none" THEN 200
                  ELSE IF err \in NotFoundErrors THEN 404 ELSE 500,
            IF err = "none" THEN idem ELSE "na", "none", err)
  ELSE IF call.trigger = "callback"
  THEN Done(call, 302, IF err = "none" THEN idem ELSE "na",
            IF err = "none" THEN "success" ELSE "failure", err)
  ELSE Done(call, 200, IF err = "none" THEN idem ELSE "na",
            IF err = "none" THEN "success" ELSE call.polled, err)

\* ------------------------------------------------------------ triggers
\* a webhook handler that finalizes whatever the event is
StartWebhook_AnyEvent(c, secret, payload, signature) ==
  /\ FreeSlot(c)
  /\ LET raw == RawBody(payload)
         req == [IdleCall EXCEPT !.trigger = "webhook", !.secret = secret,
                                 !.raw = raw, !.sig = signature]
         parsed == ParseBody(raw)
     IN calls' = [calls EXCEPT ![c] =
          IF ~verifyPaystackWebhookSignature(secret, raw, signature)
          THEN Done(req, 401, "na", "none", "none")
          ELSE IF parsed.reference = 0
          THEN Done(req, 400, "na", "none", "none")
          ELSE [req EXCEPT !.pc = "findPayment", !.ref = parsed.reference]]
  /\ UNCHANGED <<stock, stock0, cart, orders, payments, notifications, lastRes,
                 tLines, tTotals, backOffice>>

\* payments.ts:105-124, up to the call of finalize
StartWebhook(c, secret, payload, signature) ==
  /\ FreeSlot(c)
  /\ LET raw == RawBody(payload)
         req == [IdleCall EXCEPT !.trigger = "webhook", !.secret = secret,
                                 !.raw = raw, !.sig = signature]
         parsed == ParseBody(raw)
     IN calls' = [calls EXCEPT ![c] =
          IF ~verifyPaystackWebhookSignature(secret, raw, signature)
          THEN Done(req, 401, "na", "none", "none")
          ELSE IF parsed.event # "charge.success"
          THEN Done(req, 200, "na", "none", "none")
          ELSE IF parsed.reference = 0
          THEN Done(req, 400, "na", "none", "none")
          ELSE [req EXCEPT !.pc = "findPayment", !.ref = parsed.reference]]
  /\ UNCHANGED <<stock, stock0, cart, orders, payments, notifications, lastRes,
                 tLines, tTotals, backOffice>>

\* a callback that trusts the redirect unless the gateway is unreachable
StartCallback_TrustsRedirect(c, reference, gateway) ==
  /\ FreeSlot(c)
  /\ LET req == [IdleCall EXCEPT !.trigger = "callback", !.ref = reference]
         asked == [req EXCEPT !.verified = gateway]
     IN calls' = [calls EXCEPT ![c] =
          IF reference = 0
          THEN Done(req, 400, "na", "none", "none")
          ELSE IF gateway = "throws"
          THEN Done(asked, 302, "na", "failure", "none")
          ELSE [asked EXCEPT !.pc = "findPayment"]]
  /\ UNCHANGED <<stock, stock0, cart, orders, payments, notifications, lastRes,
                 tLines, tTotals, backOffice>>

\* payments.ts:144-157, up to the call of finalize
StartCallback(c, reference, gateway) ==
  /\ FreeSlot(c)
  /\ LET req == [IdleCall EXCEPT !.trigger = "callback", !.ref = reference]
         asked == [req EXCEPT !.verified = gateway]
     IN calls' = [calls EXCEPT ![c] =
          IF reference = 0
          THEN Done(req, 400, "na", "none", "none")
          ELSE IF gateway = "throws"
          THEN Done(asked, 302, "na", "failure", "none")
          ELSE IF gateway # "success"
          THEN Done(asked, 302, "na", "failure", "none")
          ELSE [asked EXCEPT !.pc = "findPayment"]]
  /\ UNCHANGED <<stock, stock0, cart, orders, payments, notifications, lastRes,
                 tLines, tTotals, backOffice>>

\* a poll that records the gateway's success itself instead of finalizing
StartPoll_MarksPaymentOnly(c, reference, gateway) ==
  /\ FreeSlot(c)
  /\ LET req == [IdleCall EXCEPT !.trigger = "status_poll", !.ref = reference]
     IN IF ~PaymentExists(reference)
        THEN /\ calls' = [calls EXCEPT ![c] = Done(req, 404, "na", "none", "none")]
             /\ UNCHANGED payments
        ELSE /\ payments' = [payments EXCEPT ![reference].status =
                               IF gateway = "success" THEN "success" ELSE @]
             /\ calls' = [calls EXCEPT ![c] =
                  Done([req EXCEPT !.polled = payments[reference].status], 200, "na",
                       payments'[reference].status, "none")]
  /\ UNCHANGED <<stock, stock0, cart, orders, notifications, lastRes, tLines, tTotals, backOffice>>

StartPoll(c, reference, gateway) ==
  /\ FreeSlot(c)
  /\ LET req == [IdleCall EXCEPT !.trigger = "status_poll", !.ref = reference]
     IN calls' = [calls EXCEPT ![c] =
          IF ~PaymentExists(reference)
          THEN Done(req, 404, "na", "none", "none")
          ELSE LET seenReq == [req EXCEPT !.polled = payments[reference].status]
               IN IF payments[reference].status = "success"
                  THEN Done(seenReq, 200, "na", "success", "none")
                  ELSE IF gateway = "success"
                  THEN [seenReq EXCEPT !.pc = "findPayment", !.verified = gateway]
                  ELSE Done([seenReq EXCEPT !.verified = gateway], 200, "na",
                            seenReq.polled, "none")]
  /\ UNCHANGED <<stock, stock0, cart, orders, payments, notifications, lastRes,
                 tLines, tTotals, backOffice>>


\* ------------------------------------------- finalizeSuccessfulPayment
Throw(c, err) == calls' = [calls EXCEPT ![c] = Answer(calls[c], "na", err)]

\* payments.ts:18-21
FindPayment(c) ==
  /\ calls[c].pc = "findPayment"
  /\ IF ~PaymentExists(calls[c].ref)
     THEN Throw(c, "Payment reference not found")
     ELSE calls' = [calls EXCEPT ![c].pc = "findOrder",
                                 ![c].seen = payments[calls[c].ref]]
  /\ UNCHANGED <<stock, stock0, cart, orders, payments, notifications, lastRes,
                 tLines, tTotals, backOffice>>

AlreadySuccess_Never(payment) == FALSE

\* the idempotency guard, payments.ts:28
AlreadySuccess(payment) == payment.status = "success"

\* payments.ts:23-30
FindOrder(c) ==
  /\ calls[c].pc = "findOrder"
  /\ IF calls[c].seen.orderId \notin 1..Len(orders)
     THEN Throw(c, "Order not found for payment")
     ELSE IF AlreadySuccess(calls[c].seen)
     THEN calls' = [calls EXCEPT ![c] = Answer(calls[c], "true", "none")]
     ELSE calls' = [calls EXCEPT
            ![c].pc = "savePayment",
            ![c].ordSeen = orders[calls[c].seen.orderId].status]
  /\ UNCHANGED <<stock, stock0, cart, orders, payments, notifications, lastRes,
                 tLines, tTotals, backOffice>>

\* payments.ts:32-42: the transaction's first operation fixes its snapshot
SavePayment(c) ==
  /\ calls[c].pc = "savePayment"
  /\ IF LockedByOther(c, PayDoc(calls[c].ref))
     THEN Throw(c, "WriteConflict")
     ELSE calls' = [calls EXCEPT ![c].pc = "saveOrder",
                                 ![c].view = stock,
                                 ![c].dirty = {},
                                 ![c].staged = {PayDoc(calls[c].ref)}]
  /\ UNCHANGED <<stock, stock0, cart, orders, payments, notifications, lastRes,
                 tLines, tTotals, backOffice>>

\* payments.ts:44-51
SaveOrder(c) ==
  /\ calls[c].pc = "saveOrder"
  /\ LET o == calls[c].seen.orderId
     IN IF WriteConflict(c, OrdDoc(o))
        THEN Throw(c, "WriteConflict")
        ELSE calls' = [calls EXCEPT ![c].pc = "decrement",
                                    ![c].line = 1,
                                    ![c].staged = @ \cup {OrdDoc(o)}]
  /\ UNCHANGED <<stock, stock0, cart, orders, payments, notifications, lastRes,
                 tLines, tTotals, backOffice>>

\* The filter of payments.ts:55-60 holds two separate conditions on the
\* variants array, so one element may satisfy "variants._id" and another
\* "variants.stock": the document matches when the line's variant exists
\* and some variant has enough stock.
StockFilterMatches(view, line) ==
  /\ line.variantId \in DOMAIN view
  /\ \E i \in DOMAIN view : view[i] >= line.quantity

FirstWithStock(view, quantity) ==
  CHOOSE i \in DOMAIN view :
    view[i] >= quantity /\ \A j \in DOMAIN view : j < i => view[j] < quantity

\* "variants.$.stock" (payments.ts:63): the array position recorded by the
\* match; with two conditions on the array it is that of either condition.
PositionalTargets(view, line) ==
  {line.variantId, FirstWithStock(view, line.quantity)}

\* the update issued without the session: it is applied at once
DecrementLine_NoSession(c, target) ==
  /\ calls[c].pc = "decrement"
  /\ LET o == calls[c].seen.orderId
         line == orders[o].lines[calls[c].line]
     IN IF ~StockFilterMatches(stock, line)
        THEN /\ target = 0
             /\ Throw(c, "Failed to decrement stock")
             /\ UNCHANGED stock
        ELSE /\ target \in PositionalTargets(stock, line)
             /\ stock' = [stock EXCEPT ![target] = @ - line.quantity]
             /\ calls' = [calls EXCEPT
                  ![c].view = stock',
                  ![c].line = @ + 1,
                  ![c].pc = IF calls[c].line = Len(orders[o].lines)
                            THEN "clearCart" ELSE "decrement"]
  /\ UNCHANGED <<stock0, cart, orders, payments, notifications, lastRes,
                 tLines, tTotals, backOffice>>

\* payments.ts:53-72, one iteration of the loop
DecrementLine(c, target) ==
  /\ calls[c].pc = "decrement"
  /\ LET o == calls[c].seen.orderId
         line == orders[o].lines[calls[c].line]
         view == calls[c].view
     IN IF ~StockFilterMatches(view, line)
        THEN /\ target = 0
             /\ Throw(c, "Failed to decrement stock")
        ELSE IF WriteConflict(c, ProductDoc)
        THEN /\ target = 0
             /\ Throw(c, "WriteConflict")
        ELSE /\ target \in PositionalTargets(view, line)
             /\ calls' = [calls EXCEPT
                  ![c].view = [view EXCEPT ![target] = @ - line.quantity],
                  ![c].staged = @ \cup {ProductDoc},
                  ![c].line = @ + 1,
                  ![c].pc = IF calls[c].line = Len(orders[o].lines)
                            THEN "clearCart" ELSE "decrement"]
  /\ UNCHANGED <<stock, stock0, cart, orders, payments, notifications, lastRes,
                 tLines, tTotals, backOffice>>

\* payments.ts:74-78
ClearCart(c) ==
  /\ calls[c].pc = "clearCart"
  /\ LET u == orders[calls[c].seen.orderId].userId
     IN IF WriteConflict(c, CartDoc(u))
        THEN Throw(c, "WriteConflict")
        ELSE calls' = [calls EXCEPT ![c].pc = "commit",
                                    ![c].staged = @ \cup {CartDoc(u)}]
  /\ UNCHANGED <<stock, stock0, cart, orders, payments, notifications, lastRes,
                 tLines, tTotals, backOffice>>

PaidEvent == [status |-> "paid", actor |-> "system", trackingNumber |-> "none"]

\* a commit whose timeline entry is put in front (unshift for push)
Commit_Unshift(c) ==
  /\ calls[c].pc = "commit"
  /\ LET r == calls[c].ref
         o == calls[c].seen.orderId
         u == orders[o].userId
     IN /\ payments' = [payments EXCEPT
             ![r].status = "success",
             ![r].verifiedAt = c,
             ![r].metadata = MergeMeta(calls[c].seen.metadata,
                                       FinalizeMeta(calls[c].trigger))]
        /\ orders' = [orders EXCEPT
             ![o].status = IF calls[c].ordSeen = "paid" THEN @ ELSE "paid",
             ![o].timeline = <<PaidEvent>> \o @]
        /\ stock' = calls[c].view
        /\ cart' = [cart EXCEPT ![u] = <<>>]
        /\ calls' = [MarkDirty(calls, c, calls[c].staged) EXCEPT
             ![c].pc = "notify", ![c].staged = {}, ![c].dirty = {},
             ![c].view = <<>>, ![c].line = 0]
  /\ UNCHANGED <<stock0, notifications, lastRes, tLines, tTotals, backOffice>>

\* payments.ts:80: the staged writes become visible together
Commit(c) ==
  /\ calls[c].pc = "commit"
  /\ LET r == calls[c].ref
         o == calls[c].seen.orderId
         u == orders[o].userId
     IN /\ payments' = [payments EXCEPT
             ![r].status = "success",
             ![r].verifiedAt = c,
             ![r].metadata = MergeMeta(calls[c].seen.metadata,
                                       FinalizeMeta(calls[c].trigger))]
        /\ orders' = [orders EXCEPT
             ![o].status = IF calls[c].ordSeen = "paid" THEN @ ELSE "paid",
             ![o].timeline = Append(@, PaidEvent)]
        /\ stock' = calls[c].view
        /\ cart' = [cart EXCEPT ![u] = <<>>]
        /\ calls' = [MarkDirty(calls, c, calls[c].staged) EXCEPT
             ![c].pc = "notify", ![c].staged = {}, ![c].dirty = {},
             ![c].view = <<>>, ![c].line = 0]
  /\ UNCHANGED <<stock0, notifications, lastRes, tLines, tTotals, backOffice>>

QueueOutcomes == {"enqueued", "REDIS_URL not set", "throws"}

\* payments.ts:82-102: after the commit
Notify(c, hasEmail, queue) ==
  /\ calls[c].pc = "notify"
  /\ LET o == calls[c].seen.orderId
     IN IF ~hasEmail
        THEN /\ queue = "enqueued"
             /\ calls' = [calls EXCEPT ![c] = Answer(calls[c], "false", "none")]
             /\ UNCHANGED notifications
        ELSE IF queue = "throws"
        THEN /\ Throw(c, "Cannot call abortTransaction after calling commitTransaction")
             /\ UNCHANGED notifications
        ELSE /\ notifications' =
                  IF queue = "enqueued"
                  THEN Append(notifications,
                         [orderId |-> o, status |-> "paid", trackingNumber |-> "none"])
                  ELSE notifications
             /\ calls' = [calls EXCEPT ![c] = Answer(calls[c], "false", "none")]
  /\ UNCHANGED <<stock, stock0, cart, orders, payments, lastRes, tLines, tTotals, backOffice>>

FinalizeStep(c) ==
  \/ FindPayment(c)
  \/ FindOrder(c)
  \/ SavePayment(c)
  \/ SaveOrder(c)
  \/ \E target \in {0} \cup Variants : DecrementLine(c, target)
  \/ ClearCart(c)
  \/ Commit(c)
  \/ \E hasEmail \in BOOLEAN, queue \in QueueOutcomes : Notify(c, hasEmail, queue)

\* ------------------------------------------------------- specification
Next ==
  \/ \E u \in Users, suffix \in {"A1B2C3"} : InitializeCheckout(u, suffix)
  \/ \E c \in CallIds, r \in Refs :
       StartWebhook(c, WebhookSecret, [event |-> "charge.success", reference |-> r],
                    Hmac(WebhookSecret, RawBody([event |-> "charge.success", reference |-> r])))
  \/ \E c \in CallIds, r \in Refs : StartCallback(c, r, "success")
  \/ \E c \in CallIds, r \in Refs : StartPoll(c, r, "success")
  \/ \E c \in CallIds : FinalizeStep(c)

Spec == Init /\ [][Next]_vars

TypeOK ==
  /\ stock \in [Variants -> Int]
  /\ Len(orders) = Len(payments)
  /\ Len(orders) <= MaxOrders

\* ------------------------------------------------ quantities for claims
AfterCommitError == "Cannot call abortTransaction after calling commitTransaction"
StockError == "Failed to decrement stock"

RECURSIVE TotalQty(_)
TotalQty(lines) ==
  IF lines = <<>> THEN 0
  ELSE lines[1].quantity + TotalQty(Tail(lines))

RECURSIVE QtyFor(_, _)
QtyFor(lines, v) ==
  IF lines = <<>> THEN 0
  ELSE (IF lines[1].variantId = v THEN lines[1].quantity ELSE 0) + QtyFor(Tail(lines), v)

RECURSIVE SumStock(_, _)
SumStock(f, S) ==
  IF S = {} THEN 0
  ELSE LET v == CHOOSE x \in S : TRUE IN f[v] + SumStock(f, S \ {v})

\* calls whose transaction has committed
Committed(c) ==
  \/ calls[c].pc = "notify"
  \/ calls[c].pc = "done" /\ calls[c].idem = "false"
  \/ calls[c].pc = "done" /\ calls[c].err = AfterCommitError

CommittedCalls(r) == {c \in CallIds : Committed(c) /\ calls[c].ref = r}

RECURSIVE CommittedQty(_)
CommittedQty(S) ==
  IF S = {} THEN 0
  ELSE LET c == CHOOSE x \in S : TRUE
       IN TotalQty(orders[payments[calls[c].ref].orderId].lines) + CommittedQty(S \ {c})

PaidEntries(o) ==
  Cardinality({i \in 1..Len(orders[o].timeline) : orders[o].timeline[i].status = "paid"})

PaidNotifications(o) ==
  Cardinality({i \in 1..Len(notifications) :
                 notifications[i].orderId = o /\ notifications[i].status = "paid"})

StoreVars == <<stock, cart, orders, payments, notifications>>

\* C1: a finalize call that reads the payment after a first call has
\* committed (status success) returns idempotent = true, and none of its
\* steps changes payment, order, stock, cart or the notification queue.
C1_SequentialIdempotence ==
  [][\A c \in CallIds :
       /\ ( /\ calls[c].pc = "findPayment"
            /\ PaymentExists(calls[c].ref)
            /\ payments[calls[c].ref].status = "success"
            /\ calls'[c] # calls[c] )
          => /\ calls'[c].pc = "findOrder"
             /\ calls'[c].seen = payments[calls[c].ref]
             /\ UNCHANGED StoreVars
       /\ ( /\ calls[c].pc = "findOrder"
            /\ calls[c].seen.status = "success"
            /\ calls'[c] # calls[c] )
          => /\ calls'[c].pc = "done"
             /\ calls'[c].idem = "true"
             /\ calls'[c].err = "none"
             /\ UNCHANGED StoreVars]_vars

C1_Witness ==
  \E c \in CallIds :
    /\ calls[c].pc = "done" /\ calls[c].idem = "true"
    /\ \E d \in CallIds : d # c /\ calls[d].ref = calls[c].ref /\ calls[d].idem = "false"
    /\ PaidEntries(payments[calls[c].ref].orderId) = 1

\* C2: however finalize calls for one payment reference interleave, the
\* order's timeline holds at most one paid entry, at most one paid
\* notification is enqueued for it, and at most one call commits for the
\* reference (one initialized -> success transition, one stock decrement).
C2_ConcurrentFinalizeOnce ==
  \A r \in 1..Len(payments) :
    /\ Cardinality(CommittedCalls(r)) <= 1
    /\ PaidEntries(payments[r].orderId) <= 1
    /\ PaidNotifications(payments[r].orderId) <= 1

FinalizedQty(v) ==
  LET S == {r \in 1..Len(payments) : payments[r].status = "success"}
      f == [r \in S |-> QtyFor(orders[payments[r].orderId].lines, v)]
  IN SumStock(f, S)

\* C3: the stock of every variant is never negative, and equals its initial
\* stock minus the line quantities of the orders whose finalize committed.
C3_StockNeverNegative ==
  \A v \in Variants :
    /\ stock[v] >= 0
    /\ stock[v] = stock0[v] - FinalizedQty(v)

\* C4: a decrement step of finalize whose line's own variant has less stock
\* than the line's quantity makes finalize fail, and a decrement that is
\* applied changes the stock of the line's variant only.
C4_DecrementIsPerVariant ==
  [][\A c \in CallIds :
       ( calls[c].pc = "decrement" /\ calls'[c] # calls[c] )
       => LET line == orders[calls[c].seen.orderId].lines[calls[c].line]
          IN /\ calls[c].view[line.variantId] < line.quantity
                  => /\ calls'[c].pc = "done"
                     /\ calls'[c].err \in {StockError, "WriteConflict"}
             /\ calls'[c].pc # "done"
                  => calls'[c].view =
                       [calls[c].view EXCEPT ![line.variantId] = @ - line.quantity]]_vars

\* what the persisted state shows of finalize calls that did not commit
C5_OnlyCommitsPersist ==
  /\ \A r \in 1..Len(payments) :
       CommittedCalls(r) = {}
       => /\ payments[r].status = "initialized"
          /\ payments[r].verifiedAt = 0
          /\ orders[payments[r].orderId].status = "pending"
          /\ Len(orders[payments[r].orderId].timeline) = 1
  /\ SumStock(stock, Variants)
       = SumStock(stock0, Variants)
           - CommittedQty({c \in CallIds : Committed(c)})
  /\ \A u \in Users :
       cart[u] = <<>> => \E c \in CallIds :
                           Committed(c) /\ orders[payments[calls[c].ref].orderId].userId = u
  /\ \A c \in CallIds :
       (calls[c].pc = "done" /\ calls[c].err \in {StockError, "WriteConflict"})
       => ~Committed(c) /\ calls[c].idem = "na"

\* C5: no step of finalize before its commit, a failing step included,
\* changes payment, order, stock, cart or notifications, and the persisted
\* state reflects committed calls only: a payment with no committed call is
\* initialized with verifiedAt unset and its order is as created; the total
\* stock is the initial total minus the quantities of the committed calls'
\* orders; a cart is empty only after a commit; a call that threw inside
\* the transaction reports its error.
C5_AllOrNothing ==
  /\ []C5_OnlyCommitsPersist
  /\ [][\A c \in CallIds :
          ( /\ calls[c].pc \in {"savePayment", "saveOrder", "decrement", "clearCart"}
            /\ calls'[c].pc # calls[c].pc \/ calls'[c].line # calls[c].line )
          => UNCHANGED StoreVars]_vars

C5_Witness ==
  \E c \in CallIds :
    /\ calls[c].pc = "done"
    /\ calls[c].err = StockError
    /\ calls[c].line = 2
    /\ payments[calls[c].ref].status = "initialized"

\* C10 as stated: every authenticated charge.success webhook carrying a
\* reference is answered 200, whatever finalize did.
C10_WebhookAlways200 ==
  \A c \in CallIds :
    (calls[c].pc = "done" /\ calls[c].trigger = "webhook" /\ calls[c].ref # 0)
    => calls[c].code = 200

\* C10 amended: such a webhook is answered 200 exactly when finalize
\* returned (first delivery or idempotent replay, the payment then being
\* success), 404 when finalize threw a not-found error, 500 when it threw
\* anything else.
C10_WebhookStatus ==
  \A c \in CallIds :
    (calls[c].pc = "done" /\ calls[c].trigger = "webhook" /\ calls[c].ref # 0)
    => /\ calls[c].code = 200
            <=> (calls[c].err = "none" /\ calls[c].idem \in {"true", "false"})
       /\ calls[c].code = 200 => payments[calls[c].ref].status = "success"
       /\ calls[c].code = 404 <=> calls[c].err \in NotFoundErrors
       /\ calls[c].code = 500
            <=> calls[c].err \in {StockError, "WriteConflict", AfterCommitError}
       /\ calls[c].code \in {200, 404, 500}

C10_Witness ==
  /\ \E c \in CallIds :
       calls[c].pc = "done" /\ calls[c].trigger = "webhook" /\ calls[c].code = 500
         /\ calls[c].err = StockError
  /\ \E c \in CallIds :
       calls[c].pc = "done" /\ calls[c].trigger = "webhook" /\ calls[c].code = 200


\* C13 as stated: a finalize call whose transaction committed returns
\* idempotent = false to its caller and throws nothing, also when the
\* enqueue of the paid notification failed.
C13_NotificationFailureContained ==
  \A c \in CallIds :
    (calls[c].pc = "done" /\ Committed(c))
    => calls[c].err = "none" /\ calls[c].idem = "false"

\* ------------------------------------------- the three triggers, in turn
NoCallInFlight == \A c \in CallIds : calls[c].pc \in {"idle", "done"}

InitTriggers ==
  /\ Init
  /\ stock \in {[v \in Variants |-> 0], [v \in Variants |-> MaxStock]}
  /\ cart = [u \in Users |-> <<CartLine(1, 1)>>]

\* requests arrive one after the other; every reference and every answer
\* of the gateway occurs
NextTriggers ==
  \/ \E u \in Users, suffix \in {"A1B2C3"} : InitializeCheckout(u, suffix)
  \/ \E c \in CallIds, r \in Refs :
       /\ NoCallInFlight
       /\ StartWebhook(c, WebhookSecret, [event |-> "charge.success", reference |-> r],
                       Hmac(WebhookSecret, RawBody([event |-> "charge.success", reference |-> r])))
  \/ \E c \in CallIds, r \in {0} \cup Refs, gateway \in GatewayOutcomes :
       NoCallInFlight /\ StartCallback(c, r, gateway)
  \/ \E c \in CallIds, r \in Refs, gateway \in GatewayOutcomes :
       NoCallInFlight /\ StartPoll(c, r, gateway)
  \/ \E c \in CallIds : FinalizeStep(c)

SpecTriggers == InitTriggers /\ [][NextTriggers]_vars

FinalizeCompleted(c) == calls[c].err = "none" /\ calls[c].idem \in {"true", "false"}

\* C11 as stated: every callback request, with or without a reference, is
\* answered with a redirect, to the success URL when finalize completed and
\* to the failure URL otherwise.
C11_CallbackAlwaysRedirects ==
  \A c \in CallIds :
    (calls[c].pc = "done" /\ calls[c].trigger = "callback")
    => /\ calls[c].code = 302
       /\ calls[c].out \in {"success", "failure"}
       /\ calls[c].out = "success" <=> FinalizeCompleted(c)

\* C12 as stated: a poll for an existing payment is answered 200 with a
\* status; when verification or finalize did not complete, the status is
\* the stored one the poll read and the call has changed no state.
C12_PollHidesUpstreamFailure ==
  \A c \in CallIds :
    (calls[c].pc = "done" /\ calls[c].trigger = "status_poll" /\ calls[c].polled # "none")
    => /\ calls[c].code = 200
       /\ FinalizeCompleted(c) => calls[c].out = "success"
       /\ ~FinalizeCompleted(c) => calls[c].out = calls[c].polled /\ ~Committed(c)

PaidQty ==
  LET S == {r \in 1..Len(payments) : payments[r].status = "success"}
      f == [r \in S |-> TotalQty(orders[payments[r].orderId].lines)]
  IN SumStock(f, S)

\* C19: whichever trigger delivers the confirmation, and whatever triggers
\* follow it, a successful payment has exactly one committed finalize call,
\* its order is paid with one paid timeline entry, the customer's cart is
\* empty, the stock is lowered by the order's quantities once, and every
\* later call for the reference that completes is an idempotent replay.
C19_TriggerConvergence ==
  /\ \A r \in 1..Len(payments) :
       payments[r].status = "success"
       => LET o == payments[r].orderId
          IN /\ Cardinality(CommittedCalls(r)) = 1
             /\ orders[o].status = "paid"
             /\ PaidEntries(o) = 1
             /\ cart[orders[o].userId] = <<>>
             /\ payments[r].metadata.source \in {"webhook", "callback", "status_poll"}
             /\ \A c \in CallIds :
                  (calls[c].pc = "done" /\ calls[c].ref = r /\ ~Committed(c)
                     /\ FinalizeCompleted(c))
                  => calls[c].idem = "true"
  /\ SumStock(stock, Variants) = SumStock(stock0, Variants) - PaidQty

C19_Witness ==
  \E c, d \in CallIds :
    /\ calls[c].pc = "done" /\ calls[c].trigger = "callback" /\ calls[c].idem = "false"
    /\ calls[d].pc = "done" /\ calls[d].trigger = "webhook" /\ calls[d].idem = "true"
    /\ calls[d].ref = calls[c].ref

PullTriggers == {"callback", "status_poll"}

FinalizePcs ==
  {"findPayment", "findOrder", "savePayment", "saveOrder", "decrement", "clearCart",
   "commit", "notify"}

\* finalizeSuccessfulPayment has been called by the request
ReachedFinalize(c) ==
  \/ calls[c].pc \in FinalizePcs
  \/ calls[c].pc = "done" /\ (calls[c].idem \in {"true", "false"} \/ calls[c].err # "none")

\* C21: a callback or poll request calls finalizeSuccessfulPayment only
\* when verifyPaystackTransaction answered success in that request; a
\* request whose verification answered anything else or threw is answered
\* at once and changes no payment, order, stock, cart or notification.
C21_VerifiedBeforeFinalize ==
  /\ [](\A c \in CallIds :
         (calls[c].trigger \in PullTriggers /\ ReachedFinalize(c))
           => calls[c].verified = "success")
  /\ [][\A c \in CallIds :
          ( /\ calls[c].pc = "idle"
            /\ calls'[c].trigger \in PullTriggers
            /\ calls'[c].verified \in {"failed", "throws"} )
          => calls'[c].pc = "done" /\ UNCHANGED StoreVars]_vars

C21_Witness ==
  \E c, d \in CallIds :
    /\ calls[c].pc = "done" /\ calls[c].trigger = "callback"
    /\ calls[c].verified = "throws" /\ calls[c].out = "failure"
    /\ calls[d].pc = "done" /\ calls[d].trigger = "status_poll"
    /\ calls[d].verified = "success" /\ calls[d].idem = "false"
    /\ calls[d].ref = calls[c].ref

\* ------------------------------------------- the cart through checkout
\* POST /cart/items for a variant that exists with enough stock (the 404
\* and 409 answers write nothing): the line of that variant is replaced or
\* a new line is appended
PutCartLine(u, v, quantity) ==
  /\ stock[v] >= quantity
  /\ ~\E d \in CallIds : CartDoc(u) \in calls[d].staged
  /\ cart' = [cart EXCEPT ![u] =
       IF \E k \in 1..Len(@) : @[k].variantId = v
       THEN [k \in 1..Len(@) |-> IF @[k].variantId = v THEN CartLine(v, quantity) ELSE @[k]]
       ELSE Append(@, CartLine(v, quantity))]
  /\ cart' # cart
  /\ calls' = MarkDirty(calls, 0, {CartDoc(u)})
  /\ UNCHANGED <<stock, stock0, orders, payments, notifications, lastRes, tLines,
                 tTotals, backOffice>>

InitCart ==
  /\ Init
  /\ stock = [v \in Variants |-> MaxStock]
  /\ cart = [u \in Users |-> <<CartLine(1, 1)>>]

\* checkout requests split at every await, the customer filling the cart,
\* and webhooks delivered one after the other
NextCart ==
  \/ \E i \in InitIds, u \in Users : BeginCheckout(i, u, "A1B2C3")
  \/ \E i \in InitIds, outcome \in InitGatewayOutcomes : GatewayInitialize(i, outcome)
  \/ \E i \in InitIds : CreateOrder(i, "ok")
  \/ \E i \in InitIds : CreatePayment(i, "ok")
  \/ \E i \in InitIds : CommitCheckout(i)
  \/ Tick
  \/ \E u \in Users : PutCartLine(u, 2, 1)
  \/ \E c \in CallIds, r \in Refs :
       /\ NoCallInFlight
       /\ StartWebhook(c, WebhookSecret, [event |-> "charge.success", reference |-> r],
                       Hmac(WebhookSecret, RawBody([event |-> "charge.success", reference |-> r])))
  \/ \E c \in CallIds : FinalizeStep(c)

SpecCart == InitCart /\ [][NextCart]_vars

CommitsFor(c, u) ==
  /\ calls[c].pc = "commit"
  /\ calls'[c].pc = "notify"
  /\ orders[calls[c].seen.orderId].userId = u

InventoryOperations == {"add", "remove", "adjust"}

Absent == -1

\* part_015:822-828
NextStockFor(operation, previousStock, quantity, targetStock) ==
  IF operation = "add" THEN previousStock + quantity
  ELSE IF operation = "remove" THEN previousStock - quantity
  ELSE targetStock

LedgerEntry(v, operation, previousStock, nextStock) ==
  [variantId |-> v, operation |-> operation, delta |-> nextStock - previousStock,
   previousStock |-> previousStock, nextStock |-> nextStock]

\* product.save() validates the product: the variant that was set, and,
\* depending on the mongoose version and its validateModifiedOnly option,
\* the variants that were only loaded
SaveValidations == {"modified paths", "all paths"}

\* POST /inventory/adjustments for a variant that exists, with the field
\* its operation needs (the 400 and 404 answers write nothing).  No
\* wishlist exists, so notifyWishlistSubscribers returns at once.
AdminAdjustInventory(v, operation, quantity, targetStock, validation) ==
  /\ Len(ledger) < MaxLedger
  /\ (\A w \in Variants \ {v} : stock[w] >= 0) => validation = "modified paths"
  /\ operation \in {"add", "remove"} => quantity >= 1 /\ targetStock = Absent
  /\ operation = "adjust" => targetStock >= 0 /\ quantity = Absent
  /\ LET previousStock == stock[v]
         nextStock == NextStockFor(operation, previousStock, quantity, targetStock)
         res == [NoRes EXCEPT !.op = "inventory"]
     IN IF nextStock < 0
        THEN /\ lastRes' = [res EXCEPT !.code = 409]
             /\ UNCHANGED <<stock, ledger, calls>>
        ELSE IF validation = "all paths"
        THEN \* another variant's stock is below the schema's min 0
             /\ lastRes' = [res EXCEPT !.code = 500]
             /\ UNCHANGED <<stock, ledger, calls>>
        ELSE /\ nextStock # previousStock
                  => ~\E d \in CallIds : ProductDoc \in calls[d].staged
             /\ stock' = [stock EXCEPT ![v] = nextStock]
             /\ calls' = IF nextStock # previousStock
                         THEN MarkDirty(calls, 0, {ProductDoc}) ELSE calls
             \* inventoryLedgerSchema: previousStock has min 0
             /\ IF previousStock < 0
                THEN /\ UNCHANGED ledger
                     /\ lastRes' = [res EXCEPT !.code = 500]
                ELSE /\ ledger' = Append(ledger,
                                     LedgerEntry(v, operation, previousStock, nextStock))
                     /\ lastRes' = [res EXCEPT !.code = 201]
  /\ UNCHANGED <<stock0, cart, orders, payments, notifications, tLines, tTotals,
                 trackingEvents, clock, inits, workerVars>>

InventoryCarts ==
  {<<CartLine(1, 1)>>, <<CartLine(1, 1), CartLine(2, 2)>>, <<CartLine(2, 2), CartLine(1, 1)>>}

\* the store of Init, with one user whose cart is one of three
InitInventory ==
  /\ stock \in [Variants -> 0..MaxStock]
  /\ stock0 = stock
  /\ cart \in [Users -> InventoryCarts]
  /\ orders = <<>>
  /\ payments = <<>>
  /\ notifications = <<>>
  /\ calls = [c \in CallIds |-> IdleCall]
  /\ lastRes = NoRes
  /\ tLines = <<>>
  /\ tTotals = calculateCartTotals(<<>>)
  /\ trackingEvents = <<>>
  /\ ledger = <<>>
  /\ clock = 1
  /\ inits = [i \in InitIds |-> IdleInit]
  /\ smtp = NoSmtp
  /\ jobs = <<>>
  /\ outbox = <<>>
  /\ workerLog = <<>>

\* one order; finalize attempts come one after the other and the stock is
\* adjusted between them
NextInventory ==
  \/ \E u \in Users, suffix \in {"A1B2C3"} :
       orders = <<>> /\ InitializeCheckout(u, suffix)
  \/ \E c \in CallIds, r \in Refs :
       /\ NoCallInFlight
       /\ StartWebhook(c, WebhookSecret, [event |-> "charge.success", reference |-> r],
                       Hmac(WebhookSecret, RawBody([event |-> "charge.success", reference |-> r])))
  \/ \E c \in CallIds, r \in Refs : NoCallInFlight /\ StartPoll(c, r, "success")
  \/ \E c \in CallIds : FinalizeStep(c)
  \/ \E v \in Variants, operation \in {"add", "remove"}, quantity \in 1..MaxQty,
        validation \in SaveValidations :
       NoCallInFlight /\ AdminAdjustInventory(v, operation, quantity, Absent, validation)
  \/ \E v \in Variants, targetStock \in 0..MaxStock, validation \in SaveValidations :
       NoCallInFlight /\ AdminAdjustInventory(v, "adjust", Absent, targetStock, validation)

SpecInventory == InitInventory /\ [][NextInventory]_vars

RECURSIVE LedgerDelta(_, _)
LedgerDelta(entries, v) ==
  IF entries = <<>> THEN 0
  ELSE (IF Head(entries).variantId = v THEN Head(entries).delta ELSE 0)
         + LedgerDelta(Tail(entries), v)

RECURSIVE CommittedLines(_)
CommittedLines(S) ==
  IF S = {} THEN 0
  ELSE LET c == CHOOSE x \in S : TRUE
       IN Len(orders[payments[calls[c].ref].orderId].lines) + CommittedLines(S \ {c})

\* C16 as stated: the stock of every variant is its initial stock plus the
\* deltas of its ledger entries, and the ledger holds an entry for every
\* order line a committed finalize decremented.
C16_LedgerMatchesStock ==
  /\ \A v \in Variants : stock[v] = stock0[v] + LedgerDelta(ledger, v)
  /\ Len(ledger) >= CommittedLines({c \in CallIds : Committed(c)})

Retried(c) ==
  \E d \in CallIds \ {c} :
    calls[d].pc = "done" /\ calls[d].ref = calls[c].ref /\ calls[d].err = StockError

LinesCovered(lines) ==
  \A k \in 1..Len(lines) : stock[lines[k].variantId] >= lines[k].quantity

\* C20 as stated: a finalize call for a reference that an earlier call
\* left with a stock conflict, made when every line's variant has stock >=
\* its quantity, is not an idempotent replay, does not fail before its
\* commit, commits payment success and order paid with every line's
\* variant lowered by the line's quantity, and returns idempotent = false.
C20_RetryAfterConflict ==
  [][\A c \in CallIds :
       ( /\ Retried(c)
         /\ calls[c].pc \in {"findOrder", "savePayment", "saveOrder", "decrement",
                             "clearCart", "commit", "notify"}
         /\ calls'[c] # calls[c] )
       => LET r == calls[c].ref
              o == calls[c].seen.orderId
          IN /\ (calls[c].pc # "notify" /\ LinesCovered(orders[o].lines))
                  => /\ calls'[c].pc # "done"
                     /\ calls[c].pc = "commit"
                          => /\ payments'[r].status = "success"
                             /\ orders'[o].status = "paid"
                             /\ \A v \in Variants :
                                  stock'[v] = stock[v] - QtyFor(orders[o].lines, v)
             /\ calls[c].pc = "notify"
                  => calls'[c].idem = "false" /\ calls'[c].err = "none"]_vars


\* ------------------------------------------- webhook authentication
InitHook ==
  /\ Init
  /\ stock = [v \in Variants |-> MaxStock]
  /\ cart = [u \in Users |-> <<CartLine(1, 1)>>]

NextHook ==
  \/ \E u \in Users, suffix \in {"A1B2C3"} : InitializeCheckout(u, suffix)
  \/ \E c \in CallIds, secret \in {NoSecret, WebhookSecret}, payload \in Payloads :
       \E signature \in SentSignatures(RawBody(payload)) :
         StartWebhook(c, secret, payload, signature)
  \/ \E c \in CallIds : FinalizeStep(c)

SpecHook == InitHook /\ [][NextHook]_vars

\* C9: with a webhook secret configured, a webhook whose signature header
\* is not the HMAC of its body is answered 401 at once (no parse, no
\* lookup) and payment, order, stock, cart and notifications are unchanged.
C9_SignatureRejection ==
  [][\A c \in CallIds :
       ( /\ calls[c].pc = "idle"
         /\ calls'[c].trigger = "webhook"
         /\ calls'[c].secret # NoSecret
         /\ calls'[c].sig # Hmac(calls'[c].secret, calls'[c].raw) )
       => /\ calls'[c].pc = "done"
          /\ calls'[c].code = 401
          /\ calls'[c].ref = 0
          /\ UNCHANGED StoreVars]_vars

C9_Witness ==
  \E c \in CallIds, r \in 1..Len(payments) :
    /\ calls[c].pc = "done"
    /\ calls[c].code = 401
    /\ calls[c].raw = RawBody([event |-> "charge.success", reference |-> r])
    /\ calls[c].sig = Hmac(AttackerKey, calls[c].raw)
    /\ payments[r].status = "initialized"

Authenticated(call) == verifyPaystackWebhookSignature(call.secret, call.raw, call.sig)

\* C26: a webhook that passes the signature check is answered 200 at once
\* when its event is not charge.success, and 400 at once when it is
\* charge.success without a reference; in both cases finalize is not
\* called and payment, order, stock, cart and notifications are unchanged.
C26_OtherEventsDoNothing ==
  [][\A c \in CallIds :
       ( /\ calls[c].pc = "idle"
         /\ calls'[c].trigger = "webhook"
         /\ Authenticated(calls'[c])
         /\ \/ ParseBody(calls'[c].raw).event # "charge.success"
            \/ ParseBody(calls'[c].raw).reference = 0 )
       => /\ calls'[c].pc = "done"
          /\ calls'[c].code =
               IF ParseBody(calls'[c].raw).event # "charge.success" THEN 200 ELSE 400
          /\ calls'[c].idem = "na"
          /\ calls'[c].err = "none"
          /\ UNCHANGED StoreVars]_vars

C26_Witness ==
  \E c, d \in CallIds, r \in 1..Len(payments) :
    /\ calls[c].pc = "done" /\ calls[c].code = 200
    /\ calls[c].raw = RawBody([event |-> "charge.failed", reference |-> r])
    /\ calls[c].sig = Hmac(WebhookSecret, calls[c].raw)
    /\ calls[c].secret = WebhookSecret
    /\ payments[r].status = "initialized"
    /\ calls[d].pc = "done" /\ calls[d].code = 400
    /\ calls[d].raw = RawBody([event |-> "charge.success", reference |-> 0])
    /\ calls[d].secret = WebhookSecret
    /\ calls[d].sig = Hmac(WebhookSecret, calls[d].raw)

\* ------------------------------------------- admin order-status update
\* a table that lets an admin mark a pending order paid
allowedTransition_PendingToPaid ==
  [from \in OrderStatuses |->
     CASE from = "pending"    -> {"paid", "processing", "shipped", "cancelled"}
       [] from = "processing" -> {"shipped", "cancelled"}
       [] from = "paid"       -> {"processing", "shipped", "cancelled"}
       [] from = "shipped"    -> {"delivered"}
       [] from = "delivered"  -> {}
       [] from = "cancelled"  -> {}]

\* part_015:131-138
allowedTransition ==
  [from \in OrderStatuses |->
     CASE from = "pending"    -> {"processing", "shipped", "cancelled"}
       [] from = "processing" -> {"shipped", "cancelled"}
       [] from = "paid"       -> {"processing", "shipped", "cancelled"}
       [] from = "shipped"    -> {"delivered"}
       [] from = "delivered"  -> {}
       [] from = "cancelled"  -> {}]

canTransition_WrongKey(from, to) ==
  IF from = to THEN TRUE ELSE to \in allowedTransition[to] \cup {"delivered"}

canTransition(from, to) ==
  IF from = to THEN TRUE ELSE to \in allowedTransition[from]

TrackingNumbers == {"DHL-TRACK-001"}

NotifyStatuses_WithCancelled == {"paid", "shipped", "delivered", "cancelled"}

\* part_015:1197
NotifyStatuses == {"paid", "shipped", "delivered"}

TrackingMissing_OnFileOnly(status, trackingNumber, onFile) ==
  status = "shipped" /\ onFile = "none"

\* part_015:1177
TrackingMissing(status, trackingNumber, onFile) ==
  status = "shipped" /\ trackingNumber = "none" /\ onFile = "none"

\* PATCH /orders/:id/status, for an order that exists
AdminUpdateStatus(o, status, trackingNumber, hasEmail, queue) ==
  /\ o \in 1..Len(orders)
  /\ LET order == orders[o]
         res == [NoRes EXCEPT !.op = "admin", !.order = o, !.from = order.status,
                              !.to = status, !.tracking = trackingNumber,
                              !.entries = Len(order.timeline)]
     IN IF ~canTransition(order.status, status)
        THEN /\ lastRes' = [res EXCEPT !.code = 409]
             /\ hasEmail /\ queue = "enqueued"
             /\ UNCHANGED <<orders, notifications, calls>>
        ELSE IF TrackingMissing(status, trackingNumber, order.trackingNumber)
        THEN /\ lastRes' = [res EXCEPT !.code = 400]
             /\ hasEmail /\ queue = "enqueued"
             /\ UNCHANGED <<orders, notifications, calls>>
        ELSE LET tn == IF trackingNumber # "none" THEN trackingNumber
                       ELSE order.trackingNumber
                 notified == status \in NotifyStatuses /\ hasEmail
                 \* part_015:1197-1212: what became of the notification
                 attempt == IF status \notin NotifyStatuses THEN "not attempted"
                            ELSE IF ~hasEmail THEN "no email"
                            ELSE queue
             IN /\ Len(order.timeline) < MaxTimeline
                /\ ~\E d \in CallIds : OrdDoc(o) \in calls[d].staged
                /\ orders' = [orders EXCEPT
                     ![o].status = status,
                     ![o].trackingNumber = tn,
                     ![o].timeline = Append(@, [status |-> status, actor |-> "admin",
                                                trackingNumber |-> tn])]
                /\ calls' = MarkDirty(calls, 0, {OrdDoc(o)})
                /\ status \notin NotifyStatuses => hasEmail /\ queue = "enqueued"
                /\ ~hasEmail => queue = "enqueued"
                /\ notifications' =
                     IF notified /\ queue = "enqueued"
                     THEN Append(notifications,
                            [orderId |-> o, status |-> status, trackingNumber |-> tn])
                     ELSE notifications
                /\ lastRes' = [res EXCEPT
                     !.code = IF notified /\ queue = "throws" THEN 500 ELSE 200,
                     !.entries = Len(order.timeline) + 1,
                     !.notify = attempt]
  /\ UNCHANGED <<stock, stock0, cart, payments, tLines, tTotals, backOffice>>

InitAdmin ==
  /\ Init
  /\ stock = [v \in Variants |-> MaxStock]
  /\ cart = [u \in Users |-> <<CartLine(1, 1)>>]

\* one order is followed through its life
NextAdmin ==
  \/ \E u \in Users, suffix \in {"A1B2C3"} : orders = <<>> /\ InitializeCheckout(u, suffix)
  \/ \E c \in CallIds, r \in Refs :
       /\ NoCallInFlight
       /\ StartWebhook(c, WebhookSecret, [event |-> "charge.success", reference |-> r],
                       Hmac(WebhookSecret, RawBody([event |-> "charge.success", reference |-> r])))
  \/ \E c \in CallIds : FinalizeStep(c)
  \/ \E o \in {1}, status \in OrderStatuses, tn \in TrackingNumbers \cup {"none"},
        hasEmail \in BOOLEAN, queue \in QueueOutcomes :
       AdminUpdateStatus(o, status, tn, hasEmail, queue)

SpecAdmin == InitAdmin /\ [][NextAdmin]_vars

\* the transition table as the specification states it
SpecTable ==
  { <<"pending", "processing">>, <<"pending", "shipped">>, <<"pending", "cancelled">>,
    <<"processing", "shipped">>, <<"processing", "cancelled">>,
    <<"paid", "processing">>, <<"paid", "shipped">>, <<"paid", "cancelled">>,
    <<"shipped", "delivered">> }

AdminAnswered == lastRes'.op = "admin" /\ lastRes' # lastRes

\* C7: an admin status update from a status to a different status that is
\* not in the transition table is answered 409 and leaves the order
\* (status, tracking number, timeline) and the notification queue unchanged.
C7_TransitionTable ==
  [][\A o \in Refs, from, to \in OrderStatuses :
       ( /\ AdminAnswered
         /\ o \in 1..Len(orders)
         /\ lastRes'.order = o
         /\ lastRes'.to = to
         /\ orders[o].status = from
         /\ from # to
         /\ <<from, to>> \notin SpecTable )
       => /\ lastRes'.code = 409
          /\ UNCHANGED <<orders, notifications>>]_vars

C7_Witness ==
  /\ lastRes.op = "admin"
  /\ lastRes.code = 409
  /\ lastRes.from = "paid"
  /\ lastRes.to = "delivered"

\* C8: an admin update to shipped on an order where that transition is
\* allowed is answered 400 and changes nothing when no tracking number is
\* supplied and none is on file; otherwise the order becomes shipped, the
\* tracking number is stored, exactly one timeline entry is appended, and a
\* notification enqueued by the update carries that tracking number.
C8_ShippingNeedsTracking ==
  [][\A o \in Refs :
       ( /\ AdminAnswered
         /\ o \in 1..Len(orders)
         /\ lastRes'.order = o
         /\ lastRes'.to = "shipped"
         /\ orders[o].status \in {"pending", "processing", "paid", "shipped"} )
       => IF lastRes'.tracking = "none" /\ orders[o].trackingNumber = "none"
          THEN /\ lastRes'.code = 400
               /\ UNCHANGED <<orders, notifications>>
          ELSE LET tn == IF lastRes'.tracking # "none" THEN lastRes'.tracking
                         ELSE orders[o].trackingNumber
               IN /\ orders'[o].status = "shipped"
                  /\ orders'[o].trackingNumber = tn
                  /\ Len(orders'[o].timeline) = Len(orders[o].timeline) + 1
                  /\ SubSeq(orders'[o].timeline, 1, Len(orders[o].timeline))
                       = orders[o].timeline
                  /\ orders'[o].timeline[Len(orders'[o].timeline)].status = "shipped"
                  /\ \A p \in 1..Len(orders) : p # o => orders'[p] = orders[p]
                  /\ \/ notifications' = notifications
                     \/ notifications' =
                          Append(notifications,
                                 [orderId |-> o, status |-> "shipped",
                                  trackingNumber |-> tn])]_vars

C8_Witness ==
  /\ lastRes.op = "admin"
  /\ lastRes.to = "shipped"
  /\ lastRes.code = 200
  /\ lastRes.from = "paid"
  /\ orders[lastRes.order].trackingNumber = "DHL-TRACK-001"
  /\ \E i \in 1..Len(notifications) :
       notifications[i] = [orderId |-> lastRes.order, status |-> "shipped",
                           trackingNumber |-> "DHL-TRACK-001"]

\* C18 as stated: an admin status update whose target is the order's
\* current status is answered 200, leaves the order's status and timeline
\* as they were and enqueues no notification.
C18_SameStateNoOp ==
  [][\A o \in Refs, s \in OrderStatuses :
       ( /\ AdminAnswered
         /\ o \in 1..Len(orders)
         /\ lastRes'.order = o
         /\ lastRes'.to = s
         /\ orders[o].status = s )
       => /\ lastRes'.code = 200
          /\ orders'[o].status = s
          /\ orders'[o].timeline = orders[o].timeline
          /\ notifications' = notifications]_vars

\* C24 as stated: an admin update answered 200 enqueues one notification
\* with the new status and the order's tracking number when the new status
\* is paid, shipped or delivered and the customer has an email address;
\* every other update, answered 200 or rejected, enqueues none.
C24_NotifiesIffEmail ==
  [][\A o \in Refs :
       (AdminAnswered /\ o \in 1..Len(orders) /\ lastRes'.order = o)
       => IF /\ lastRes'.code = 200
             /\ lastRes'.to \in {"paid", "shipped", "delivered"}
             /\ lastRes'.notify # "no email"
          THEN notifications' =
                 Append(notifications,
                        [orderId |-> o, status |-> lastRes'.to,
                         trackingNumber |-> orders'[o].trackingNumber])
          ELSE notifications' = notifications]_vars

\* C24 amended: the same, for a customer with an email address and a
\* configured queue (REDIS_URL set); with no email address or with
\* REDIS_URL unset the update is answered 200 and enqueues none.
C24_NotifiesIffQueued ==
  [][\A o \in Refs :
       (AdminAnswered /\ o \in 1..Len(orders) /\ lastRes'.order = o)
       => IF /\ lastRes'.code = 200
             /\ lastRes'.to \in {"paid", "shipped", "delivered"}
             /\ lastRes'.notify \notin {"no email", "REDIS_URL not set"}
          THEN notifications' =
                 Append(notifications,
                        [orderId |-> o, status |-> lastRes'.to,
                         trackingNumber |-> orders'[o].trackingNumber])
          ELSE notifications' = notifications]_vars

C24_Witness ==
  /\ lastRes.op = "admin"
  /\ lastRes.code = 200
  /\ lastRes.from = "shipped"
  /\ lastRes.to = "delivered"
  /\ lastRes.notify = "enqueued"
  /\ notifications # <<>>
  /\ notifications[Len(notifications)] =
       [orderId |-> lastRes.order, status |-> "delivered",
        trackingNumber |-> "DHL-TRACK-001"]

\* ------------------------------------------- carrier tracking events
TrackingStatuses ==
  {"label_created", "picked_up", "in_transit", "out_for_delivery", "delivered", "exception"}

MovingStatuses == {"delivered", "out_for_delivery", "in_transit"}

\* POST /orders/:id/tracking-events, for an order that exists and a
\* payload the schema accepts (externalTrackingId is never empty)
AddTrackingEvent(o, status, externalTrackingId) ==
  /\ o \in 1..Len(orders)
  /\ Len(trackingEvents) < MaxEvents
  /\ trackingEvents' = Append(trackingEvents,
        [orderId |-> o, externalTrackingId |-> externalTrackingId, status |-> status])
  /\ LET order == orders[o]
         next == IF status = "delivered" THEN "delivered"
                 ELSE IF order.status \in {"processing", "paid"} THEN "shipped"
                 ELSE order.status
         res == [NoRes EXCEPT !.op = "tracking", !.code = 201, !.order = o,
                              !.from = order.status, !.tracking = externalTrackingId]
     IN IF status \in MovingStatuses
        THEN /\ Len(order.timeline) < MaxTimeline
             /\ ~\E d \in CallIds : OrdDoc(o) \in calls[d].staged
             /\ orders' = [orders EXCEPT
                  ![o].trackingNumber = externalTrackingId,
                  ![o].status = next,
                  ![o].timeline = Append(@, [status |-> next, actor |-> "admin",
                                             trackingNumber |-> externalTrackingId])]
             /\ calls' = MarkDirty(calls, 0, {OrdDoc(o)})
             /\ lastRes' = [res EXCEPT !.to = next,
                                       !.entries = Len(order.timeline) + 1]
        ELSE /\ lastRes' = [res EXCEPT !.to = order.status,
                                       !.entries = Len(order.timeline)]
             /\ UNCHANGED <<orders, calls>>
  /\ UNCHANGED <<stock, stock0, cart, payments, notifications, tLines, tTotals,
                 ledger, clock, inits, workerVars>>

InitFulfil == InitAdmin

\* one order, reached by admin updates, carrier events and a webhook that
\* may arrive late; every customer has an email and the queue accepts
NextFulfil ==
  \/ \E u \in Users, suffix \in {"A1B2C3"} : orders = <<>> /\ InitializeCheckout(u, suffix)
  \/ \E c \in CallIds, r \in Refs :
       /\ NoCallInFlight
       /\ StartWebhook(c, WebhookSecret, [event |-> "charge.success", reference |-> r],
                       Hmac(WebhookSecret, RawBody([event |-> "charge.success", reference |-> r])))
  \/ \E c \in CallIds : FinalizeStep(c)
  \/ \E o \in {1}, status \in OrderStatuses, tn \in TrackingNumbers \cup {"none"} :
       AdminUpdateStatus(o, status, tn, TRUE, "enqueued")
  \/ \E o \in {1}, status \in TrackingStatuses, id \in TrackingNumbers :
       AddTrackingEvent(o, status, id)

SpecFulfil == InitFulfil /\ [][NextFulfil]_vars

\* C17 as stated: once an order is delivered or cancelled, no step of the
\* system (admin update, carrier tracking event, finalize) gives it a
\* different status.
C17_TerminalStatuses ==
  [][\A o \in 1..Len(orders) :
       orders[o].status \in {"delivered", "cancelled"}
         => orders'[o].status = orders[o].status]_vars

TrackingAnswered == lastRes'.op = "tracking" /\ trackingEvents' # trackingEvents

\* C22 as stated: a tracking event leaves the order's status as it was or
\* moves it along a pair of the transition table; it never moves a
\* pending, processing, paid or cancelled order to delivered.
C22_TrackingRespectsTable ==
  [][\A o \in 1..Len(orders) :
       (TrackingAnswered /\ lastRes'.order = o)
       => \/ orders'[o].status = orders[o].status
          \/ <<orders[o].status, orders'[o].status>> \in SpecTable]_vars

IsPrefix(a, b) == Len(a) <= Len(b) /\ SubSeq(b, 1, Len(a)) = a

\* C23: every step keeps each order's timeline as a prefix of its new
\* timeline and appends at most one entry, a step that changes an order's
\* status appends exactly one, an order is never removed, and a new order
\* starts with one entry; finalize runs concurrently with admin updates
\* and tracking events on the same order.
C23_TimelineAppendOnly ==
  [][/\ Len(orders') >= Len(orders)
     /\ \A o \in 1..Len(orders) :
          /\ IsPrefix(orders[o].timeline, orders'[o].timeline)
          /\ Len(orders'[o].timeline) <= Len(orders[o].timeline) + 1
          /\ orders'[o].status # orders[o].status
               => Len(orders'[o].timeline) = Len(orders[o].timeline) + 1
     /\ \A o \in (Len(orders) + 1)..Len(orders') :
          Len(orders'[o].timeline) = 1]_vars

\* an admin cancelled the order after finalize had read it as pending, and
\* finalize then committed
C23_Witness ==
  \E c \in CallIds :
    /\ calls[c].pc = "notify"
    /\ calls[c].ordSeen = "pending"
    /\ Len(orders) = 1
    /\ Len(orders[1].timeline) = 3
    /\ orders[1].timeline[2].status = "cancelled"
    /\ orders[1].timeline[2].actor = "admin"
    /\ orders[1].timeline[3] = PaidEvent

\* C29: an order in status paid has a payment in status success with its
\* verification timestamp set; a payment in status success has an order
\* whose timeline holds a paid entry; and a payment in status success
\* stays in status success.
C29_PaidImpliesConfirmed ==
  /\ [](\A o \in 1..Len(orders) :
         orders[o].status = "paid"
           => \E r \in 1..Len(payments) :
                /\ payments[r].orderId = o
                /\ payments[r].status = "success"
                /\ payments[r].verifiedAt # 0)
  /\ [](\A p \in 1..Len(payments) :
         payments[p].status = "success"
           => \E k \in 1..Len(orders[payments[p].orderId].timeline) :
                orders[payments[p].orderId].timeline[k].status = "paid")
  /\ [][\A q \in 1..Len(payments) :
          payments[q].status = "success" => payments'[q].status = "success"]_vars

\* a paid order whose status an admin has confirmed once more
C29_Witness ==
  /\ Len(orders) = 1
  /\ orders[1].status = "paid"
  /\ payments[1].status = "success"
  /\ payments[1].verifiedAt # 0
  /\ lastRes.op = "admin"
  /\ lastRes.code = 200
  /\ lastRes.from = "paid"
  /\ lastRes.to = "paid"

AdjustAnswered == lastRes'.op = "inventory" /\ lastRes' # lastRes

MaxPriceNgn == 2
TotalsLines == [quantity : 1..MaxQty, unitPriceNgn : 0..MaxPriceNgn]
TotalsInputs ==
  {<<>>} \cup {<<a>> : a \in TotalsLines} \cup {<<a, b>> : a, b \in TotalsLines}
    \cup {<<a, b, c>> : a, b, c \in TotalsLines}

Unset == [subtotalNgn |-> -1, shippingNgn |-> -1, totalNgn |-> -1]

InitTotals ==
  /\ stock = [v \in Variants |-> 0]
  /\ stock0 = stock
  /\ cart = [u \in Users |-> <<>>]
  /\ orders = <<>>
  /\ payments = <<>>
  /\ notifications = <<>>
  /\ calls = [c \in CallIds |-> IdleCall]
  /\ lastRes = NoRes
  /\ tLines \in TotalsInputs
  /\ tTotals = Unset
  /\ trackingEvents = <<>>
  /\ ledger = <<>>
  /\ clock = 1
  /\ inits = [i \in InitIds |-> IdleInit]
  /\ smtp = NoSmtp
  /\ jobs = <<>>
  /\ outbox = <<>>
  /\ workerLog = <<>>

ApplyTotals ==
  /\ tTotals = Unset
  /\ tTotals' = calculateCartTotals(tLines)
  /\ UNCHANGED <<pipelineVars, tLines>>

NextTotals == ApplyTotals

SpecTotals == InitTotals /\ [][NextTotals]_vars

RECURSIVE ExpectedSubtotal(_)
ExpectedSubtotal(lines) ==
  IF lines = <<>> THEN 0
  ELSE Head(lines).quantity * Head(lines).unitPriceNgn + ExpectedSubtotal(Tail(lines))

\* C6: for lines with quantity >= 1 and unit price >= 0 (the empty list
\* included) the subtotal is the sum of quantity * unit price, shipping is
\* 2500 when the subtotal is positive and 0 otherwise, and the total is
\* subtotal + shipping.
C6_CartTotals ==
  tTotals # Unset
  => /\ tTotals.subtotalNgn = ExpectedSubtotal(tLines)
     /\ tTotals.shippingNgn = (IF ExpectedSubtotal(tLines) > 0 THEN 2500 ELSE 0)
     /\ tTotals.totalNgn = tTotals.subtotalNgn + tTotals.shippingNgn

C6_Witness ==
  /\ tTotals # Unset
  /\ Len(tLines) = 2
  /\ tTotals.subtotalNgn = 0
  /\ tTotals.shippingNgn = 0

\* ------------------------------------------- redelivered confirmations
\* the process dies between the commit and the enqueue (payments.ts:80-84)
Interrupt(c) ==
  /\ calls[c].pc = "notify"
  /\ calls' = [calls EXCEPT ![c] = Done(calls[c], 0, "na", "none", "interrupted")]
  /\ UNCHANGED <<stock, stock0, cart, orders, payments, notifications, lastRes,
                 tLines, tTotals, backOffice>>

\* the response has been sent and the request is over
Forget(c) ==
  /\ calls[c].pc = "done"
  /\ \A d \in CallIds : d > c => calls[d].pc = "idle"
  /\ calls' = [calls EXCEPT ![c] = IdleCall]
  /\ UNCHANGED <<stock, stock0, cart, orders, payments, notifications, lastRes,
                 tLines, tTotals, backOffice>>

InitRedelivery ==
  /\ Init
  /\ stock = [v \in Variants |-> MaxStock]

\* one order of a customer with an email address, REDIS_URL set; the
\* gateway delivers the confirmation by webhook or by callback, one
\* request after the other, as often as it likes
NextRedelivery ==
  \/ \E u \in Users, suffix \in {"A1B2C3"} : orders = <<>> /\ InitializeCheckout(u, suffix)
  \/ \E c \in CallIds, r \in Refs :
       /\ NoCallInFlight
       /\ StartWebhook(c, WebhookSecret, [event |-> "charge.success", reference |-> r],
                       Hmac(WebhookSecret, RawBody([event |-> "charge.success", reference |-> r])))
  \/ \E c \in CallIds, r \in Refs : NoCallInFlight /\ StartCallback(c, r, "success")
  \/ \E c \in CallIds : FindPayment(c)
  \/ \E c \in CallIds : FindOrder(c)
  \/ \E c \in CallIds : SavePayment(c)
  \/ \E c \in CallIds : SaveOrder(c)
  \/ \E c \in CallIds, target \in {0} \cup Variants : DecrementLine(c, target)
  \/ \E c \in CallIds : ClearCart(c)
  \/ \E c \in CallIds : Commit(c)
  \/ \E c \in CallIds, queue \in {"enqueued", "throws"} : Notify(c, TRUE, queue)
  \/ \E c \in CallIds : Interrupt(c)
  \/ \E c \in CallIds : Forget(c)

\* the steps of one request up to its answer
RequestStep(c) ==
  \/ FindPayment(c)
  \/ FindOrder(c)
  \/ SavePayment(c)
  \/ SaveOrder(c)
  \/ \E target \in {0} \cup Variants : DecrementLine(c, target)
  \/ ClearCart(c)
  \/ Commit(c)
  \/ \E queue \in {"enqueued", "throws"} : Notify(c, TRUE, queue)
  \/ Interrupt(c)

\* every request that has started runs to its answer, and the gateway
\* keeps delivering
SpecRedelivery ==
  /\ InitRedelivery
  /\ [][NextRedelivery]_vars
  /\ WF_vars(NextRedelivery)
  /\ \A c \in CallIds : WF_vars(RequestStep(c))

\* C30 as stated: once a payment is success, a paid notification for its
\* order is eventually in the queue.
C30_PaidEventuallyNotified ==
  \A r \in Refs :
    (\E p \in 1..Len(payments) : p = r /\ payments[p].status = "success")
      ~> (\E p \in 1..Len(payments), n \in 1..Len(notifications) :
            /\ p = r
            /\ notifications[n].orderId = payments[p].orderId
            /\ notifications[n].status = "paid")

\* ------------------------------------------- notification worker
MaxJobs == 2

OrderStatusAttempts == 5
OtpAttempts == 3
WishlistAttempts == 3
DefaultAttempts == 1

MailJobs == {"order-status", "admin-otp", "wishlist-stock"}
JobNames == MailJobs \cup {"system-startup"}

AttemptsOf(name) ==
  CASE name = "order-status"  -> OrderStatusAttempts
    [] name = "admin-otp"     -> OtpAttempts
    [] name = "wishlist-stock" -> WishlistAttempts
    [] OTHER                  -> DefaultAttempts

Job(name) == [name |-> name, state |-> "waiting", attemptsMade |-> 0,
              attempts |-> AttemptsOf(name)]

\* values of the SMTP_* variables ("unset": not in the environment)
SmtpEnvs ==
  [host : {"unset", "", "immersiavr.com"},
   port : {"unset", "465", "0", "abc"},
   user : {"unset", "shopws@immersiavr.com"},
   pass : {"unset", "secret"}]

\* process.env.SMTP_PORT ? Number(process.env.SMTP_PORT) : undefined
PortOf(env) ==
  IF env.port \in {"unset", ""} THEN [defined |-> FALSE, nan |-> FALSE, value |-> 0]
  ELSE IF env.port = "465" THEN [defined |-> TRUE, nan |-> FALSE, value |-> 465]
  ELSE IF env.port = "0" THEN [defined |-> TRUE, nan |-> FALSE, value |-> 0]
  ELSE [defined |-> TRUE, nan |-> TRUE, value |-> 0]

\* JavaScript's !x for a string or undefined, and for a number or undefined
BlankText(x) == x \in {"unset", ""}
BlankNumber(n) == ~n.defined \/ n.nan \/ n.value = 0

\* a transport is built as soon as a host is named
createTransporter_HostOnly(env) ==
  IF BlankText(env.host) THEN "null" ELSE "transport"

\* index.ts:94-115
createTransporter(env) ==
  IF BlankText(env.host) \/ BlankNumber(PortOf(env)) \/ BlankText(env.user)
       \/ BlankText(env.pass)
  THEN "null" ELSE "transport"

\* the server accepts a mail only from a complete configuration
MailOutcomes(env) ==
  IF BlankNumber(PortOf(env)) \/ BlankText(env.user) \/ BlankText(env.pass)
  THEN {"throws"} ELSE {"sent", "throws"}

\* the worker takes the next waiting job (one job at a time)
TakeJob(k) ==
  /\ k \in 1..Len(jobs)
  /\ jobs[k].state = "waiting"
  /\ \A j \in 1..Len(jobs) : jobs[j].state # "active"
  /\ jobs' = [jobs EXCEPT ![k].state = "active"]
  /\ UNCHANGED <<stock, stock0, cart, orders, payments, notifications, calls, lastRes,
                 tLines, tTotals, trackingEvents, ledger, clock, inits, smtp, outbox,
                 workerLog>>

\* the Worker's processor and the queue's handling of its result: a job
\* whose processor returns is completed, one whose processor throws is
\* retried after a delay until its attempts are used up and then failed
ProcessJob(k, mail) ==
  /\ k \in 1..Len(jobs)
  /\ jobs[k].state = "active"
  /\ LET job == jobs[k]
         transporter == createTransporter(smtp)
     IN IF job.name \notin MailJobs
        THEN /\ mail = "throws"
             /\ jobs' = [jobs EXCEPT ![k].state = "completed"]
             /\ workerLog' = Append(workerLog, [job |-> k, text |-> "skipped unknown job"])
             /\ UNCHANGED outbox
        ELSE IF transporter = "null"
        THEN /\ mail = "throws"
             /\ jobs' = [jobs EXCEPT ![k].state = "completed"]
             /\ workerLog' = Append(workerLog, [job |-> k, text |-> "SMTP not configured"])
             /\ UNCHANGED outbox
        ELSE IF mail = "sent"
        THEN /\ jobs' = [jobs EXCEPT ![k].state = "completed"]
             /\ outbox' = Append(outbox, [job |-> k, name |-> job.name])
             /\ workerLog' =
                  IF job.name = "wishlist-stock" THEN workerLog
                  ELSE Append(workerLog, [job |-> k, text |-> "email sent"])
        ELSE /\ jobs' = [jobs EXCEPT
                  ![k].attemptsMade = @ + 1,
                  ![k].state = IF job.attemptsMade + 1 < job.attempts
                               THEN "delayed" ELSE "failed"]
             /\ UNCHANGED <<outbox, workerLog>>
  /\ UNCHANGED <<stock, stock0, cart, orders, payments, notifications, calls, lastRes,
                 tLines, tTotals, trackingEvents, ledger, clock, inits, smtp>>

\* the backoff delay of a retried job has passed
RetryJob(k) ==
  /\ k \in 1..Len(jobs)
  /\ jobs[k].state = "delayed"
  /\ jobs' = [jobs EXCEPT ![k].state = "waiting"]
  /\ UNCHANGED <<stock, stock0, cart, orders, payments, notifications, calls, lastRes,
                 tLines, tTotals, trackingEvents, ledger, clock, inits, smtp, outbox,
                 workerLog>>

JobLists ==
  {<<Job(a)>> : a \in JobNames} \cup {<<Job(a), Job(b)>> : a, b \in JobNames}

InitWorker ==
  /\ stock = [v \in Variants |-> 0]
  /\ stock0 = stock
  /\ cart = [u \in Users |-> <<>>]
  /\ orders = <<>>
  /\ payments = <<>>
  /\ notifications = <<>>
  /\ calls = [c \in CallIds |-> IdleCall]
  /\ lastRes = NoRes
  /\ tLines = <<>>
  /\ tTotals = calculateCartTotals(<<>>)
  /\ trackingEvents = <<>>
  /\ ledger = <<>>
  /\ clock = 1
  /\ inits = [i \in InitIds |-> IdleInit]
  /\ smtp \in SmtpEnvs
  /\ jobs \in JobLists
  /\ outbox = <<>>
  /\ workerLog = <<>>

NextWorker ==
  \/ \E k \in 1..MaxJobs : TakeJob(k)
  \/ \E k \in 1..MaxJobs, mail \in MailOutcomes(smtp) : ProcessJob(k, mail)
  \/ \E k \in 1..MaxJobs : RetryJob(k)

SpecWorker == InitWorker /\ [][NextWorker]_vars

\* one of SMTP_HOST, SMTP_PORT, SMTP_USER, SMTP_PASS is missing or unusable
SmtpNotConfigured ==
  \/ smtp.host \in {"unset", ""}
  \/ smtp.port \in {"unset", "0", "abc"}
  \/ smtp.user = "unset"
  \/ smtp.pass = "unset"

\* C27: when SMTP is not configured, no job is ever retried or failed and
\* no mail is handed to a transport; processing an order-status, OTP or
\* wishlist-stock job completes it in one go and logs its payload.
C27_NoTransportNoFailure ==
  /\ [](SmtpNotConfigured
         => /\ outbox = <<>>
            /\ \A k \in 1..Len(jobs) :
                 /\ jobs[k].state \notin {"delayed", "failed"}
                 /\ jobs[k].attemptsMade = 0)
  /\ [][\A k \in 1..Len(jobs) :
          ( /\ SmtpNotConfigured
            /\ jobs[k].state = "active"
            /\ jobs'[k] # jobs[k]
            /\ jobs[k].name \in {"order-status", "admin-otp", "wishlist-stock"} )
          => /\ jobs'[k].state = "completed"
             /\ workerLog' =
                  Append(workerLog, [job |-> k, text |-> "SMTP not configured"])]_vars

\* a host is named but the password is missing, and both jobs are done
C27_Witness ==
  /\ smtp.host = "immersiavr.com"
  /\ smtp.port = "465"
  /\ smtp.pass = "unset"
  /\ Len(jobs) = 2
  /\ jobs[1].name = "order-status" /\ jobs[1].state = "completed"
  /\ jobs[2].name = "admin-otp" /\ jobs[2].state = "completed"
  /\ Len(workerLog) = 2

====
